---- MODULE Spec2Model ----
(***************************************************************************)
(* Model of kite's wallet helpers: the environment loader and the env-file *)
(* persistence of src/lib/transaction.ts, the wallet factory createWallet  *)
(* and createWallets, and the airdropIfRequired and grindKeyPair helpers   *)
(* they call.                                                              *)
(*                                                                         *)
(* Strings are sequences of one-character strings.  Key material is scaled *)
(* down: a byte ranges over 0..ByteRange-1 instead of 0..255, a secret key *)
(* is a one-byte seed and a one-byte public key instead of 32 + 32 bytes,  *)
(* and the compact encoding has three letters instead of 58.  The          *)
(* algorithms (base-x encoding, JSON formatting and parsing, the typed     *)
(* array conversion, the key check) are the real ones at that scale.       *)
(***************************************************************************)
EXTENDS Integers, Sequences, FiniteSets, TLC

\* ------------------------------------------------------------------ bounds

\* Number of byte values (256 in the program).
ByteRange == 4
\* Longest environment value the loader is tried on.
MaxStrLen == 5
\* Number of createWallet calls that may be in flight together.
NumCalls == 2
\* Largest balance an address is funded to.
MaxBalance == 4

\* ------------------------------------------------------------- characters

Digits == <<"0", "1", "2", "3", "4", "5", "6", "7", "8", "9">>

\* The compact encoding's alphabet (bs58's, cut to its first letters of each
\* kind: the zero letter "1", an upper-case and a lower-case letter).
ALPHABET == <<"1", "A", "a">>

BASE == Len(ALPHABET)

Bytes == 0 .. (ByteRange - 1)

IndexOf(seq, c) == CHOOSE i \in 1 .. Len(seq) : seq[i] = c

IsIn(seq, c) == \E i \in 1 .. Len(seq) : seq[i] = c

\* ------------------------------------------------------------ JSON.stringify

RECURSIVE ToDecimal(_)
\* A non-negative integer in decimal, as JSON.stringify writes a number.
ToDecimal(n) ==
    IF n < 10 THEN <<Digits[n + 1]>>
    ELSE ToDecimal(n \div 10) \o <<Digits[(n % 10) + 1]>>

RECURSIVE JoinNumbers(_)
JoinNumbers(nums) ==
    IF Len(nums) = 0 THEN <<>>
    ELSE IF Len(nums) = 1 THEN ToDecimal(nums[1])
    ELSE ToDecimal(nums[1]) \o <<",">> \o JoinNumbers(Tail(nums))

\* JSON.stringify(Array.from(bytes)): "[b1,b2,...]".
JSONStringify(nums) == <<"[">> \o JoinNumbers(nums) \o <<"]">>

\* ---------------------------------------------------------------- JSON.parse
\* The JSON grammar over the characters "[", "]", ",", and the digits: a
\* number (no leading zero) or an array of values, arrays nested freely.
\* A parse returns [ok, val, next]: val is [t |-> "num", n] or
\* [t |-> "arr", items], next the position after the value.

ParseFail == [ok |-> FALSE, val |-> [t |-> "none"], next |-> 0]

IsDigit(c) == IsIn(Digits, c)

RECURSIVE ParseDigits(_, _, _)
\* Reads the digits of s from position i on, acc the number read so far.
ParseDigits(s, i, acc) ==
    IF i <= Len(s) /\ IsDigit(s[i])
    THEN ParseDigits(s, i + 1, acc * 10 + (IndexOf(Digits, s[i]) - 1))
    ELSE [ok |-> TRUE, val |-> [t |-> "num", n |-> acc], next |-> i]

ParseNumber(s, i) ==
    IF i > Len(s) \/ ~IsDigit(s[i]) THEN ParseFail
    ELSE IF s[i] = "0"
         THEN IF i + 1 <= Len(s) /\ IsDigit(s[i + 1]) THEN ParseFail
              ELSE [ok |-> TRUE, val |-> [t |-> "num", n |-> 0], next |-> i + 1]
         ELSE ParseDigits(s, i, 0)

RECURSIVE ParseValue(_, _)
RECURSIVE ParseItems(_, _, _)

\* The items of an array after its "[" or after a ",": a value, then "," or "]".
ParseItems(s, i, items) ==
    LET v == ParseValue(s, i) IN
    IF ~v.ok THEN ParseFail
    ELSE IF v.next > Len(s) THEN ParseFail
    ELSE IF s[v.next] = "]"
         THEN [ok |-> TRUE,
               val |-> [t |-> "arr", items |-> Append(items, v.val)],
               next |-> v.next + 1]
    ELSE IF s[v.next] = ","
         THEN ParseItems(s, v.next + 1, Append(items, v.val))
    ELSE ParseFail

ParseValue(s, i) ==
    IF i > Len(s) THEN ParseFail
    ELSE IF s[i] = "["
         THEN IF i + 1 <= Len(s) /\ s[i + 1] = "]"
              THEN [ok |-> TRUE, val |-> [t |-> "arr", items |-> <<>>],
                    next |-> i + 2]
              ELSE ParseItems(s, i + 1, <<>>)
    ELSE ParseNumber(s, i)

\* JSON.parse(s): the whole string must be one value.
JSONParse(s) ==
    LET v == ParseValue(s, 1) IN
    IF v.ok /\ v.next = Len(s) + 1 THEN v ELSE ParseFail

\* ------------------------------------------------------- Uint8Array.from

RECURSIVE ToNumber(_)
\* JavaScript's ToNumber of a parsed JSON value: an array goes through its
\* string form, so [] is 0, [x] is the number of x, and a longer array is NaN
\* (which a typed array stores as 0).
ToNumber(v) ==
    IF v.t = "num" THEN v.n
    ELSE IF Len(v.items) = 1 THEN ToNumber(v.items[1])
    ELSE 0

\* Uint8Array.from(value): an array gives one byte per item, wrapped to the
\* byte range; a number is neither iterable nor array-like and gives no bytes.
Uint8ArrayFrom(v) ==
    IF v.t = "arr"
    THEN [i \in 1 .. Len(v.items) |-> ToNumber(v.items[i]) % ByteRange]
    ELSE <<>>

\* ------------------------------------------------------------------- bs58

RECURSIVE LeadingCount(_, _)
\* How many leading elements of seq equal z.
LeadingCount(seq, z) ==
    IF Len(seq) > 0 /\ seq[1] = z THEN 1 + LeadingCount(Tail(seq), z) ELSE 0

RECURSIVE ValueOf(_, _)
\* The number whose big-endian digits in the given radix are ds.
ValueOf(ds, radix) ==
    IF Len(ds) = 0 THEN 0
    ELSE ValueOf(SubSeq(ds, 1, Len(ds) - 1), radix) * radix + ds[Len(ds)]

RECURSIVE DigitsOf(_, _)
\* The big-endian digits of n in the given radix; none for 0.
DigitsOf(n, radix) ==
    IF n = 0 THEN <<>>
    ELSE Append(DigitsOf(n \div radix, radix), n % radix)

Zeros(n) == [i \in 1 .. n |-> 0]

\* base58.encode(bytes): a zero letter per leading zero byte, then the number
\* the remaining bytes spell, in the alphabet's base.
Base58Encode(bytes) ==
    LET z == LeadingCount(bytes, 0)
        ds == Zeros(z) \o DigitsOf(ValueOf(bytes, ByteRange), BASE)
    IN  [i \in 1 .. Len(ds) |-> ALPHABET[ds[i] + 1]]

\* base58.decode(string): throws "Non-base58 character" on a character
\* outside the alphabet; otherwise a zero byte per leading zero letter, then
\* the bytes of the number the remaining letters spell.
Base58Decode(s) ==
    IF \E i \in 1 .. Len(s) : ~IsIn(ALPHABET, s[i])
    THEN [ok |-> FALSE, error |-> "Non-base58 character", bytes |-> <<>>]
    ELSE LET ds == [i \in 1 .. Len(s) |-> IndexOf(ALPHABET, s[i]) - 1]
             z == LeadingCount(ds, 0)
         IN  [ok |-> TRUE, error |-> "",
              bytes |-> Zeros(z) \o DigitsOf(ValueOf(ds, BASE), ByteRange)]

\* ----------------------------------------------------------------- Keypair
\* A keypair is named by its seed.  The secret key is the seed followed by
\* the public key derived from it.

Seeds == Bytes

\* The public key of a seed (the curve's scalar multiplication, here a
\* permutation of the byte range).
DerivePublicKey(seed) == <<(seed + 1) % ByteRange>>

SeedLen == 1

SecretKeyLen == SeedLen + Len(DerivePublicKey(0))

\* keypair.secretKey
SecretKey(k) == <<k>> \o DerivePublicKey(k)

\* keypair.publicKey.toBase58(), the address.
Address(k) == Base58Encode(DerivePublicKey(k))

Addresses == {Address(k) : k \in Seeds}

\* Keypair.fromSecretKey(bytes): rejects a wrong size, then a public half
\* that is not the one the seed derives.
KeypairFromSecretKey(bytes) ==
    IF Len(bytes) # SecretKeyLen
    THEN [ok |-> FALSE, error |-> "bad secret key size", key |-> 0]
    ELSE IF SubSeq(bytes, SeedLen + 1, SecretKeyLen) # DerivePublicKey(bytes[1])
    THEN [ok |-> FALSE, error |-> "provided secretKey is invalid", key |-> 0]
    ELSE [ok |-> TRUE, error |-> "", key |-> bytes[1]]

keypairToSecretKeyJSON(k) == JSONStringify(SecretKey(k))

\* ------------------------------------------------ getKeypairFromEnvironment

PleaseSet == "Please set variable in environment"

InvalidSecretKey == "Invalid secret key in environment variable"

Thrown(e) == [ok |-> FALSE, error |-> e, key |-> 0]

\* The longer JSON format, tried after a "Non-base58 character" failure:
\* only JSON.parse and Uint8Array.from sit inside the try block, and
\* Keypair.fromSecretKey is called after it, so its own error escapes as is.
LoadJSONFormat(secretKeyString) ==
    LET parsed == JSONParse(secretKeyString) IN
    IF ~parsed.ok THEN Thrown(InvalidSecretKey)
    ELSE KeypairFromSecretKey(Uint8ArrayFrom(parsed.val))

\* getKeypairFromEnvironment, given the variable's value (<<>> when unset).
getKeypairFromEnvironment(secretKeyString) ==
    IF Len(secretKeyString) = 0 THEN Thrown(PleaseSet)
    ELSE LET decoded == Base58Decode(secretKeyString) IN
         IF decoded.ok
         THEN LET kp == KeypairFromSecretKey(decoded.bytes) IN
              IF kp.ok THEN kp ELSE Thrown(InvalidSecretKey)
         ELSE LoadJSONFormat(secretKeyString)

\* ------------------------------------------------------------------- state

\* JavaScript's null and undefined, for a string, a name and an amount.
NullString == <<"null">>

NullName == "null"

UndefinedName == "undefined"

Null == 0 - 1

Undefined == 0 - 2

NoKey == 0 - 1

DEFAULT_ENV_KEYPAIR_VARIABLE_NAME == "PRIVATE_KEY"

DEFAULT_AIRDROP_AMOUNT == 2

DOT_ENV == ".env"

VarNames == {DEFAULT_ENV_KEYPAIR_VARIABLE_NAME, "WALLET"}

Calls == 1 .. NumCalls

\* The caller of airdropIfRequired outside createWallet (the tests' user).
User == 0

Callers == Calls \cup {User}

VARIABLES
    envFile,       \* the env file: one record per append (comment line + entry)
    env,           \* process.env: variable name -> value, <<>> when unset
    balance,       \* the ledger: address -> lamports
    requests,      \* funding requests issued so far, per address
    generated,     \* the keypairs generated so far
    wallet,        \* createWallet calls: call -> its position and locals
    air,           \* airdropIfRequired calls: caller -> its position and locals
    userKey,       \* the user's keypair signer, NoKey before the first
    thrown,        \* the last error a direct call threw, "" if it returned
    reloadedUpTo,  \* how many appends the last dotenv.config has read
    loaded         \* what the last direct getKeypairFromEnvironment gave

vars == <<envFile, env, balance, requests, generated, wallet, air, userKey,
          thrown, reloadedUpTo, loaded>>

NoLoad == [ok |-> FALSE, error |-> "", key |-> NoKey, name |-> ""]

NoAirdropCall ==
    [pc |-> "none", address |-> <<>>, airdropAmount |-> 0,
     minimumBalance |-> 0, balance |-> 0, ret |-> 0, issued |-> 0]

IdleWallet ==
    [pc |-> "idle", prefix |-> NullString, suffix |-> NullString,
     envFileName |-> NullName, envVariableName |-> UndefinedName,
     airdropAmount |-> Undefined, candidates |-> <<>>, temp |-> NoKey,
     signer |-> NoKey, error |-> "", after |-> {}]

Init ==
    /\ envFile = <<>>
    /\ env = [n \in VarNames |-> <<>>]
    /\ balance = [a \in Addresses |-> 0]
    /\ requests = [a \in Addresses |-> 0]
    /\ generated = {}
    /\ wallet = [c \in Calls |-> IdleWallet]
    /\ air = [x \in Callers |-> NoAirdropCall]
    /\ userKey = NoKey
    /\ thrown = ""
    /\ reloadedUpTo = 0
    /\ loaded = NoLoad

\* ------------------------------------------------------------ persistence

AlreadyExists == "variable already exists in env file"

\* What appendFile adds: "\n# Solana Address: <address>\n<name>=<json>".
EnvFileEntry(k, variableName) ==
    [address |-> Address(k), name |-> variableName,
     value |-> keypairToSecretKeyJSON(k)]

\* addKeypairToEnvFile's guard: the name is looked up in process.env, not in
\* the file.
ExistingSecretKey(variableName) == env[variableName] # <<>>

\* addKeypairToEnvFile(keypair, variableName): the file after the call.
addKeypairToEnvFile(k, variableName) ==
    IF ExistingSecretKey(variableName) THEN envFile
    ELSE Append(envFile, EnvFileEntry(k, variableName))

\* dotenv's parse: the last entry of a name wins.
DotenvParse(file, n) ==
    IF \E i \in 1 .. Len(file) : file[i].name = n
    THEN LET last == CHOOSE i \in 1 .. Len(file) :
                         /\ file[i].name = n
                         /\ \A j \in (i + 1) .. Len(file) : file[j].name # n
         IN  file[last].value
    ELSE <<>>

\* dotenv.config({ path }): a variable already set in process.env is kept.
DotenvConfig(file) ==
    [n \in VarNames |-> IF env[n] # <<>> THEN env[n] ELSE DotenvParse(file, n)]

\* A direct call: makeKeypairs(1), then addKeypairToEnvFile under a name.
AddKeypairToEnvFileCall(k, variableName) ==
    /\ k \notin generated
    /\ generated' = generated \cup {k}
    /\ envFile' = addKeypairToEnvFile(k, variableName)
    /\ thrown' = IF ExistingSecretKey(variableName) THEN AlreadyExists ELSE ""
    /\ UNCHANGED <<env, balance, requests, wallet, air, userKey,
                   reloadedUpTo, loaded>>

\* A direct dotenv.config({ path: envFileName }), as the tests do.
DotenvConfigCall ==
    /\ env' = DotenvConfig(envFile)
    /\ reloadedUpTo' = Len(envFile)
    /\ UNCHANGED <<envFile, balance, requests, generated, wallet, air,
                   userKey, thrown, loaded>>

\* -------------------------------------------------------- airdropIfRequired

\* Mutant: a balance equal to the minimum counts as too low.
Sufficient_Strict(currentBalance, minimumBalance) ==
    currentBalance > minimumBalance

\* The comparison that decides whether funds are requested.
Sufficient(currentBalance, minimumBalance) == currentBalance >= minimumBalance

\* The call as it starts: nothing fetched yet.
AirdropCall(address, airdropAmount, minimumBalance) ==
    [pc |-> "fetch", address |-> address, airdropAmount |-> airdropAmount,
     minimumBalance |-> minimumBalance, balance |-> 0, ret |-> 0,
     issued |-> 0]

\* After the balance fetch: return the balance when it is sufficient,
\* otherwise go on to request funds.
AfterFetch(call, currentBalance) ==
    IF Sufficient(currentBalance, call.minimumBalance)
    THEN [call EXCEPT !.pc = "returned", !.balance = currentBalance,
                      !.ret = currentBalance]
    ELSE [call EXCEPT !.pc = "request", !.balance = currentBalance]

\* Mutant: the balance fetched before the request is returned.
AfterRequest_StaleBalance(call, currentBalance) ==
    [call EXCEPT !.pc = "returned", !.ret = currentBalance,
                 !.issued = call.issued + 1]

\* After the funding request is confirmed: return the resulting balance.
AfterRequest(call, currentBalance) ==
    [call EXCEPT !.pc = "returned",
                 !.ret = currentBalance + call.airdropAmount,
                 !.issued = call.issued + 1]

\* createWallet returns its signer once its airdropIfRequired has returned.
WalletAfterAirdrop(x, call) ==
    IF x \in Calls /\ call.pc = "returned"
    THEN [wallet EXCEPT ![x].pc = "done"]
    ELSE wallet

\* airdropIfRequired, first await: the balance fetch and the comparison.
AirdropFetch(x) ==
    /\ air[x].pc = "fetch"
    /\ LET call == AfterFetch(air[x], balance[air[x].address]) IN
       /\ air' = [air EXCEPT ![x] = call]
       /\ wallet' = WalletAfterAirdrop(x, call)
    /\ UNCHANGED <<envFile, env, balance, requests, generated, userKey,
                   thrown, reloadedUpTo, loaded>>

\* airdropIfRequired, second await: the funding request and its confirmation.
AirdropRequest(x) ==
    /\ air[x].pc = "request"
    /\ balance[air[x].address] + air[x].airdropAmount <= MaxBalance
    /\ LET a == air[x].address
           call == AfterRequest(air[x], balance[a])
       IN  /\ balance' = [balance EXCEPT ![a] = @ + air[x].airdropAmount]
           /\ requests' = [requests EXCEPT ![a] = @ + 1]
           /\ air' = [air EXCEPT ![x] = call]
           /\ wallet' = WalletAfterAirdrop(x, call)
    /\ UNCHANGED <<envFile, env, generated, userKey, thrown, reloadedUpTo,
                   loaded>>

\* The tests' generateKeyPairSigner(): a new user between two calls.
GenerateKeyPairSigner(k) ==
    /\ air[User].pc \in {"none", "returned"}
    /\ k \notin generated
    /\ generated' = generated \cup {k}
    /\ userKey' = k
    /\ air' = [air EXCEPT ![User] = NoAirdropCall]
    /\ UNCHANGED <<envFile, env, balance, requests, wallet, thrown,
                   reloadedUpTo, loaded>>

AirdropAmounts == {1, 2}

MinimumBalances == {0, 1, 2}

\* A direct airdropIfRequired(connection, user.address, amount, minimum),
\* started once the user's previous call has returned.
AirdropIfRequiredCall(airdropAmount, minimumBalance) ==
    /\ userKey # NoKey
    /\ air[User].pc \in {"none", "returned"}
    /\ air' = [air EXCEPT ![User] =
                  AirdropCall(Address(userKey), airdropAmount, minimumBalance)]
    /\ UNCHANGED <<envFile, env, balance, requests, generated, wallet,
                   userKey, thrown, reloadedUpTo, loaded>>

\* ------------------------------------------------------------- grindKeyPair

StartsWith(str, prefix) ==
    /\ Len(prefix) <= Len(str)
    /\ SubSeq(str, 1, Len(prefix)) = prefix

EndsWith(str, suffix) ==
    /\ Len(suffix) <= Len(str)
    /\ SubSeq(str, Len(str) - Len(suffix) + 1, Len(str)) = suffix

FoldCase(str) == [i \in 1 .. Len(str) |-> IF str[i] = "a" THEN "A" ELSE str[i]]

\* Mutant: the address is compared without regard to case.
Matches_IgnoreCase(address, prefix, suffix) ==
    /\ prefix = NullString \/ StartsWith(FoldCase(address), FoldCase(prefix))
    /\ suffix = NullString \/ EndsWith(FoldCase(address), FoldCase(suffix))

\* The grinder's test of a candidate's address.
Matches(address, prefix, suffix) ==
    /\ prefix = NullString \/ StartsWith(address, prefix)
    /\ suffix = NullString \/ EndsWith(address, suffix)

\* ------------------------------------------------------------- createWallet

Prefixes == {NullString, <<"A">>}

Suffixes == {<<>>, <<"1">>}

EnvFileNames == {NullName, DOT_ENV}

EnvVariableNames == {UndefinedName, "WALLET"}

WalletAirdropAmounts == {Undefined, Null}

WalletOptions ==
    [prefix : Prefixes, suffix : Suffixes, envFileName : EnvFileNames,
     envVariableName : EnvVariableNames, airdropAmount : WalletAirdropAmounts]

\* The options after "if (options.envVariableName && !options.envFileName)"
\* and the destructuring defaults.
Defaulted(options) ==
    [prefix |-> options.prefix,
     suffix |-> options.suffix,
     envFileName |->
         IF options.envVariableName # UndefinedName
            /\ options.envFileName = NullName
         THEN DOT_ENV ELSE options.envFileName,
     envVariableName |->
         IF options.envVariableName = UndefinedName
         THEN DEFAULT_ENV_KEYPAIR_VARIABLE_NAME ELSE options.envVariableName,
     airdropAmount |->
         IF options.airdropAmount = Undefined
         THEN DEFAULT_AIRDROP_AMOUNT ELSE options.airdropAmount]

\* Whether the call takes the "if (envFileName)" branch.
Persisted(c) == wallet[c].envFileName # NullName

\* The calls that had returned a persisted wallet under the same name.
DoneBefore(variableName) ==
    {d \in Calls : /\ wallet[d].pc = "done"
                   /\ Persisted(d)
                   /\ wallet[d].envVariableName = variableName}

\* The call's locals as createWallet(options) starts.
StartedWallet(options) ==
    LET o == Defaulted(options) IN
    [IdleWallet EXCEPT !.pc = "grind", !.prefix = o.prefix,
                       !.suffix = o.suffix, !.envFileName = o.envFileName,
                       !.envVariableName = o.envVariableName,
                       !.airdropAmount = o.airdropAmount,
                       !.after = IF o.envFileName # NullName
                                 THEN DoneBefore(o.envVariableName) ELSE {}]

\* No createWallet call is in flight.
Quiescent == \A d \in Calls : wallet[d].pc \in {"idle", "done", "failed"}

\* The caller passes the same options object to every call, as the tests do.
SameOptions(options) ==
    LET o == Defaulted(options) IN
    \A d \in Calls :
        wallet[d].pc # "idle" =>
            /\ wallet[d].prefix = o.prefix
            /\ wallet[d].suffix = o.suffix
            /\ wallet[d].envFileName = o.envFileName
            /\ wallet[d].envVariableName = o.envVariableName
            /\ wallet[d].airdropAmount = o.airdropAmount

\* The calls not started yet, and the first n of them.
IdleCalls == {c \in Calls : wallet[c].pc = "idle"}

FirstIdle(n) ==
    {c \in IdleCalls : Cardinality({d \in IdleCalls : d < c}) < n}

\* One createWallet(options), awaited: no other call is in flight.
createWallet(options) ==
    /\ IdleCalls # {}
    /\ Quiescent
    /\ SameOptions(options)
    /\ wallet' = [c \in Calls |->
                     IF c \in FirstIdle(1) THEN StartedWallet(options)
                     ELSE wallet[c]]
    /\ UNCHANGED <<envFile, env, balance, requests, generated, air, userKey,
                   thrown, reloadedUpTo, loaded>>

\* createWallets(amount, options): Array.from({ length: amount }, () =>
\* createWallet(options)) starts every call before any of them goes on.
createWallets(amount, options) ==
    /\ Cardinality(IdleCalls) >= amount
    /\ Quiescent
    /\ SameOptions(options)
    /\ wallet' = [c \in Calls |->
                     IF c \in FirstIdle(amount) THEN StartedWallet(options)
                     ELSE wallet[c]]
    /\ UNCHANGED <<envFile, env, balance, requests, generated, air, userKey,
                   thrown, reloadedUpTo, loaded>>

\* "if (airdropAmount)": null and 0 are both falsy.
WantsAirdrop(airdropAmount) == airdropAmount > 0

\* The call once it holds its signer: on to the airdrop, or done.
WithSigner(w, k) ==
    [w EXCEPT !.signer = k,
              !.pc = IF WantsAirdrop(w.airdropAmount) THEN "airdrop" ELSE "done"]

\* airdropIfRequired(keyPairSigner.address, airdropAmount, airdropAmount).
WalletAirdropCall(w, k) ==
    IF WantsAirdrop(w.airdropAmount)
    THEN AirdropCall(Address(k), w.airdropAmount, w.airdropAmount)
    ELSE NoAirdropCall

\* One turn of grindKeyPair's loop: a keypair is generated and kept if its
\* address matched.  In memory the keypair becomes the signer at once; on
\* the persisted path it is the temporary extractable keypair.
GrindTurn(c, k, matched) ==
    /\ wallet[c].pc = "grind"
    /\ k \notin generated
    /\ generated' = generated \cup {k}
    /\ LET w == [wallet[c] EXCEPT !.candidates = Append(@, k)] IN
       IF ~matched
       THEN /\ wallet' = [wallet EXCEPT ![c] = w]
            /\ air' = air
       ELSE IF Persisted(c)
       THEN /\ wallet' = [wallet EXCEPT ![c] =
                             [w EXCEPT !.temp = k, !.pc = "append"]]
            /\ air' = air
       ELSE /\ wallet' = [wallet EXCEPT ![c] = WithSigner(w, k)]
            /\ air' = [air EXCEPT ![c] = WalletAirdropCall(w, k)]
    /\ UNCHANGED <<envFile, env, balance, requests, userKey, thrown,
                   reloadedUpTo, loaded>>

\* Mutant: createWallet does not hand its prefix and suffix to the grinder.
Grind_WithoutOptions(c, k) ==
    GrindTurn(c, k, Matches(Address(k), NullString, NullString))

\* grindKeyPair({ prefix, suffix, ... }) as createWallet calls it.
Grind(c, k) ==
    GrindTurn(c, k, Matches(Address(k), wallet[c].prefix, wallet[c].suffix))

\* Mutant: the wallet goes on to the reload without the append.
AppendToEnvFile_NoWrite(c) ==
    /\ wallet[c].pc = "append"
    /\ wallet' = [wallet EXCEPT ![c].pc = "reload"]
    /\ UNCHANGED <<envFile, env, balance, requests, generated, air, userKey,
                   thrown, reloadedUpTo, loaded>>

\* addKeyPairSignerToEnvFile(temporaryExtractableKeyPairSigner, name, file).
AppendToEnvFile(c) ==
    /\ wallet[c].pc = "append"
    /\ envFile' = addKeypairToEnvFile(wallet[c].temp, wallet[c].envVariableName)
    /\ wallet' = [wallet EXCEPT ![c] =
                     IF ExistingSecretKey(wallet[c].envVariableName)
                     THEN [@ EXCEPT !.pc = "failed", !.error = AlreadyExists]
                     ELSE [@ EXCEPT !.pc = "reload"]]
    /\ UNCHANGED <<env, balance, requests, generated, air, userKey, thrown,
                   reloadedUpTo, loaded>>

\* dotenv.config({ path: envFileName }), then
\* loadWalletFromEnvironment(envVariableName).
ReloadAndLoad(c) ==
    /\ wallet[c].pc = "reload"
    /\ env' = DotenvConfig(envFile)
    /\ reloadedUpTo' = Len(envFile)
    /\ LET r == getKeypairFromEnvironment(env'[wallet[c].envVariableName]) IN
       IF r.ok
       THEN /\ wallet' = [wallet EXCEPT ![c] = WithSigner(@, r.key)]
            /\ air' = [air EXCEPT ![c] = WalletAirdropCall(wallet[c], r.key)]
       ELSE /\ wallet' = [wallet EXCEPT ![c] =
                             [@ EXCEPT !.pc = "failed", !.error = r.error]]
            /\ air' = air
    /\ UNCHANGED <<envFile, balance, requests, generated, userKey, thrown,
                   loaded>>

\* ------------------------------------------------------------ direct loads

\* A direct getKeypairFromEnvironment(variableName): what it returned or
\* threw.  The environment is only read.
GetKeypairFromEnvironmentCall(variableName) ==
    /\ LET r == getKeypairFromEnvironment(env[variableName]) IN
       loaded' = [ok |-> r.ok, error |-> r.error, key |-> r.key,
                  name |-> variableName]
    /\ UNCHANGED <<envFile, env, balance, requests, generated, wallet, air,
                   userKey, thrown, reloadedUpTo>>

\* ----------------------------------------------------------- specifications

\* The wallet factory: createWallet calls one after the other, and the
\* concurrent calls of createWallets, all with one options object.
Next ==
    \/ \E o \in WalletOptions : createWallet(o)
    \/ \E n \in 2 .. NumCalls, o \in WalletOptions : createWallets(n, o)
    \/ \E c \in Calls, k \in Seeds : Grind(c, k)
    \/ \E c \in Calls : AppendToEnvFile(c)
    \/ \E c \in Calls : ReloadAndLoad(c)
    \/ \E c \in Calls : AirdropFetch(c)
    \/ \E c \in Calls : AirdropRequest(c)

Spec == Init /\ [][Next]_vars

\* Direct airdropIfRequired calls of a user, one after the other.
NextAirdrop ==
    \/ \E k \in Seeds : GenerateKeyPairSigner(k)
    \/ \E a \in AirdropAmounts, m \in MinimumBalances : AirdropIfRequiredCall(a, m)
    \/ AirdropFetch(User)
    \/ AirdropRequest(User)

SpecAirdrop == Init /\ [][NextAirdrop]_vars

\* Direct persistence: addKeypairToEnvFile, dotenv.config and
\* getKeypairFromEnvironment calls in any order.
NextPersist ==
    \/ \E k \in Seeds, n \in VarNames : AddKeypairToEnvFileCall(k, n)
    \/ DotenvConfigCall
    \/ \E n \in VarNames : GetKeypairFromEnvironmentCall(n)

SpecPersist == Init /\ [][NextPersist]_vars

\* The loader on every value of the variable up to MaxStrLen characters.
LoaderChars == {"[", "]", ",", "0", "1", "A"}

LoaderStrings == UNION {[1 .. m -> LoaderChars] : m \in 0 .. MaxStrLen}

InitLoader ==
    /\ envFile = <<>>
    /\ \E v \in LoaderStrings :
           env = [n \in VarNames |->
                     IF n = DEFAULT_ENV_KEYPAIR_VARIABLE_NAME THEN v ELSE <<>>]
    /\ balance = [a \in Addresses |-> 0]
    /\ requests = [a \in Addresses |-> 0]
    /\ generated = {}
    /\ wallet = [c \in Calls |-> IdleWallet]
    /\ air = [x \in Callers |-> NoAirdropCall]
    /\ userKey = NoKey
    /\ thrown = ""
    /\ reloadedUpTo = 0
    /\ loaded = NoLoad

NextLoader == \E n \in VarNames : GetKeypairFromEnvironmentCall(n)

SpecLoader == InitLoader /\ [][NextLoader]_vars

\* ------------------------------------------------------------------ claims

\* C1: when airdropIfRequired fetches a balance that is at least the minimum,
\* the call returns at once with that balance, issues no funding request and
\* leaves every balance as it was.
C1_NoUnnecessaryAirdrop ==
    [][\A x \in Callers :
          (/\ air[x].pc = "fetch"
           /\ air'[x] # air[x]
           /\ balance[air[x].address] >= air[x].minimumBalance)
          => /\ air'[x].pc = "returned"
             /\ air'[x].ret = balance[air[x].address]
             /\ air'[x].issued = 0
             /\ balance' = balance
             /\ requests' = requests]_vars

\* A second call on an address that an earlier call funded returned the
\* balance without a request.
C1_Witness ==
    /\ air[User].pc = "returned"
    /\ air[User].issued = 0
    /\ air[User].minimumBalance > 0
    /\ air[User].ret >= air[User].minimumBalance
    /\ requests[air[User].address] = 1

\* C2: when airdropIfRequired fetches a balance below the minimum, the call
\* issues exactly one funding request, after which the balance of the
\* address and the value returned are the fetched balance plus airdropAmount.
C2_AirdropWhenNecessary ==
    [][\A x \in Callers :
          LET a == air[x].address IN
          /\ (/\ air[x].pc = "fetch"
              /\ air'[x] # air[x]
              /\ balance[a] < air[x].minimumBalance)
             => /\ air'[x].pc = "request"
                /\ air'[x].balance = balance[a]
                /\ balance' = balance
                /\ requests' = requests
          /\ (air[x].pc = "request" /\ air'[x] # air[x])
             => /\ air'[x].pc = "returned"
                /\ air'[x].issued = 1
                /\ air'[x].ret = air[x].balance + air[x].airdropAmount
                /\ balance' = [balance EXCEPT
                                  ![a] = air[x].balance + air[x].airdropAmount]
                /\ requests' = [requests EXCEPT ![a] = @ + 1]]_vars

\* A second call found the first call's funds too low and added its own.
C2_Witness ==
    /\ air[User].pc = "returned"
    /\ air[User].issued = 1
    /\ air[User].balance > 0
    /\ air[User].balance < air[User].minimumBalance
    /\ air[User].ret = air[User].balance + air[User].airdropAmount
    /\ balance[air[User].address] = air[User].ret
    /\ requests[air[User].address] = 2

\* C3: a wallet that createWallet has returned holds exactly the airdrop
\* amount, or nothing, with no request issued, when the amount is null.
C3_FreshWalletBalance ==
    \A c \in Calls :
        wallet[c].pc = "done" =>
            LET a == Address(wallet[c].signer) IN
            IF wallet[c].airdropAmount # Null
            THEN balance[a] = wallet[c].airdropAmount
            ELSE balance[a] = 0 /\ requests[a] = 0

\* C4: a createWallet call made after an earlier call has persisted a wallet
\* under the same file and variable name succeeds, returns the same signer
\* and requests no further funds.
C4_SecondCallSameWallet ==
    \A c \in Calls :
        \A d \in wallet[c].after :
            /\ wallet[c].pc # "failed"
            /\ wallet[c].pc = "done" =>
                   /\ wallet[c].signer = wallet[d].signer
                   /\ air[c].issued = 0

NameInFile(file, n) == \E i \in 1 .. Len(file) : file[i].name = n

\* C5: no step adds an entry to the env file under a name the file already
\* holds.
C5_ExistingNameRejected ==
    [][\A n \in VarNames :
          NameInFile(envFile, n) =>
              \A i \in (Len(envFile) + 1) .. Len(envFile') :
                  envFile'[i].name # n]_vars

\* C6: once the environment has been loaded from the file, the loader gives,
\* for every entry the load has read, a keypair with the address of the
\* entry's comment line; and the signer createWallet loads on the persisted
\* path has the address of the keypair it ground.
C6_RoundTrip ==
    /\ \A i \in 1 .. reloadedUpTo :
           LET r == getKeypairFromEnvironment(env[envFile[i].name]) IN
           r.ok /\ Address(r.key) = envFile[i].address
    /\ \A c \in Calls :
           (Persisted(c) /\ wallet[c].signer # NoKey) =>
               Address(wallet[c].signer) = Address(wallet[c].temp)

ValidCompact(v) == \E k \in Seeds : v = Base58Encode(SecretKey(k))

ValidByteArray(v) == \E k \in Seeds : v = JSONStringify(SecretKey(k))

\* C7: the loader throws the "Please set" error for an unset variable,
\* returns the keypair for a valid compact or byte-array encoding, and throws
\* the "Invalid secret key" error for every other value.
C7_LoaderTotal ==
    loaded.name # "" =>
        LET v == env[loaded.name] IN
        IF v = <<>> THEN ~loaded.ok /\ loaded.error = PleaseSet
        ELSE IF ValidCompact(v) \/ ValidByteArray(v)
        THEN /\ loaded.ok
             /\ v \in {Base58Encode(SecretKey(loaded.key)),
                       JSONStringify(SecretKey(loaded.key))}
        ELSE ~loaded.ok /\ loaded.error = InvalidSecretKey

HasPrefix(str, p) ==
    /\ Len(p) <= Len(str)
    /\ \A i \in 1 .. Len(p) : str[i] = p[i]

HasSuffix(str, q) ==
    /\ Len(q) <= Len(str)
    /\ \A i \in 1 .. Len(q) : str[Len(str) - Len(q) + i] = q[i]

Wanted(k, w) ==
    /\ w.prefix # NullString => HasPrefix(Address(k), w.prefix)
    /\ w.suffix # NullString => HasSuffix(Address(k), w.suffix)

\* C8: while a call grinds, every candidate so far has failed the match; the
\* keypair the grinder returns is the last candidate generated, it matches
\* the prefix and the suffix letter for letter, every candidate before it
\* failed, and with no or empty prefix and suffix it is the first candidate.
C8_GrindFirstMatch ==
    \A c \in Calls :
        LET w == wallet[c]
            n == Len(w.candidates)
        IN  /\ w.pc = "grind" =>
                   \A i \in 1 .. n : ~Wanted(w.candidates[i], w)
            /\ w.pc \notin {"idle", "grind"} =>
                   /\ n >= 1
                   /\ Wanted(w.candidates[n], w)
                   /\ \A i \in 1 .. (n - 1) : ~Wanted(w.candidates[i], w)
                   /\ w.candidates[n] = IF Persisted(c) THEN w.temp ELSE w.signer
                   /\ (/\ w.prefix \in {NullString, <<>>}
                       /\ w.suffix \in {NullString, <<>>}) => n = 1

\* A grind for a prefix and a suffix returned after rejecting a candidate.
C8_Witness ==
    \E c \in Calls :
        /\ wallet[c].pc = "done"
        /\ wallet[c].prefix = <<"A">>
        /\ wallet[c].suffix = <<"1">>
        /\ Len(wallet[c].candidates) >= 2

\* C9: the env file never holds two entries of one variable name.
C9_UniqueNames ==
    \A i, j \in 1 .. Len(envFile) :
        i # j => envFile[i].name # envFile[j].name

\* The file holds the secret of keypair k under the name.
SecretInFile(k, n) ==
    \E i \in 1 .. Len(envFile) :
        /\ envFile[i].name = n
        /\ envFile[i].address = Address(k)
        /\ getKeypairFromEnvironment(envFile[i].value).ok
        /\ getKeypairFromEnvironment(envFile[i].value).key = k

WroteToFile(c) ==
    \E i \in 1 .. Len(envFile) :
        \E j \in 1 .. Len(wallet[c].candidates) :
            envFile[i].address = Address(wallet[c].candidates[j])

\* C10: on the persisted path a call past the append has its ground keypair
\* in the file, a call holds a signer only after the reload, and its secret
\* is in the file, funds are requested only for a loaded signer, and a call
\* that failed returned no signer and requested nothing; on the other path
\* the call writes nothing to the file.
C10_PersistedOrder ==
    \A c \in Calls :
        LET w == wallet[c] IN
        /\ Persisted(c) =>
               /\ w.pc \in {"grind", "append"} => ~WroteToFile(c)
               /\ w.pc \in {"reload", "airdrop", "done"} =>
                      w.temp # NoKey /\ SecretInFile(w.temp, w.envVariableName)
               /\ w.signer # NoKey =>
                      /\ w.pc \in {"airdrop", "done"}
                      /\ env[w.envVariableName] # <<>>
                      /\ SecretInFile(w.signer, w.envVariableName)
               /\ w.pc = "failed" =>
                      /\ w.signer = NoKey
                      /\ w.error # ""
                      /\ air[c].pc = "none"
        /\ ~Persisted(c) => (~WroteToFile(c) /\ w.pc # "failed")
        /\ air[c].pc # "none" =>
               /\ w.signer # NoKey
               /\ air[c].address = Address(w.signer)
               /\ w.pc \in {"airdrop", "done"}
        /\ w.pc = "airdrop" => air[c].pc \in {"fetch", "request"}

\* A persisted wallet was funded and returned.
C10_Witness ==
    \E c \in Calls :
        /\ wallet[c].pc = "done"
        /\ Persisted(c)
        /\ air[c].issued = 1
        /\ SecretInFile(wallet[c].signer, wallet[c].envVariableName)

====
